---- MODULE Spec2Model ----
(***************************************************************************)
(* Model of bioutils/digests.py: byte coercion, sequence normalization and *)
(* the five sequence digests (seguid, seqhash, md5, sha1, sha512) plus the *)
(* lower-level sha512t.                                                    *)
(*                                                                         *)
(* Values.  A Python value is a record [type, val]: type is "bytes" (val a *)
(* sequence of integers 0..255) or "str" (val a sequence of Unicode code   *)
(* points; the str results of the digests are ASCII so their code points   *)
(* are the ASCII codes).  The outcome of a call is [status, type, val]:    *)
(* status "ok" with the returned value, or the name of the exception that  *)
(* left the call, with no value.                                           *)
(*                                                                         *)
(* hashlib is outside the repository.  Its three primitives are modelled   *)
(* as deterministic functions from byte strings to digests of the real     *)
(* length (16, 20, 64 bytes) that are collision-free on the bounded input  *)
(* set, also after truncation to the default 24 bytes.                     *)
(***************************************************************************)
EXTENDS Integers, Sequences, FiniteSets

VARIABLES seq, normalize, digest_size, pc, fn, out

vars == <<seq, normalize, digest_size, pc, fn, out>>

----------------------------------------------------------------------------
(* Bounds of the checked input space *)

\* longest input, in bytes (bytes input) or code points (str input)
MaxLen == 2

----------------------------------------------------------------------------
(* Program constants *)

\* digest lengths of the hashlib primitives, in bytes
MD5Len == 16
SHA1Len == 20
SHA512Len == 64

\* default digest_size of sha512t and seq_seqhash, and the literal that
\* seq_seqhash passes on
DefaultDigestSize == 24
SeqhashDigestSize == 24

----------------------------------------------------------------------------
(* Input space *)

\* tab, newline, vertical tab, form feed, carriage return, space
AsciiWhitespace == {9, 10, 11, 12, 13, 32}
Star == 42
Pad == 61

\* bytes drawn for bytes inputs: a A z * the six whitespace bytes, 0x1C (a
\* separator that is whitespace for str but not for a bytes pattern), 0xE9
\* (non-ASCII)
ByteAlphabet == {97, 65, 122, Star, 28, 233} \cup AsciiWhitespace

\* code points drawn for str inputs: a A * space, U+00E9 (2 bytes in
\* UTF-8), U+2003 EM SPACE (3 bytes), U+D800 (lone surrogate, not encodable)
CodePointAlphabet == {97, 65, Star, 32, 233, 8195, 55296}

RECURSIVE SeqsUpTo(_, _)
SeqsUpTo(S, n) ==
    IF n = 0 THEN {<<>>}
    ELSE LET shorter == SeqsUpTo(S, n - 1)
         IN  shorter \cup {Append(s, x) : s \in {t \in shorter : Len(t) = n - 1}, x \in S}

Bytes(b) == [type |-> "bytes", val |-> b]
Str(s) == [type |-> "str", val |-> s]

Inputs ==
    {Bytes(b) : b \in SeqsUpTo(ByteAlphabet, MaxLen)}
      \cup {Str(s) : s \in SeqsUpTo(CodePointAlphabet, MaxLen)}

\* digest sizes a caller passes: the default, a smaller and a larger one
\* (SpecAllSizes below draws every size)
DigestSizes == {16, DefaultDigestSize, 32}

----------------------------------------------------------------------------
(* Outcomes *)

Ok(v) == [status |-> "ok", type |-> v.type, val |-> v.val]
Raise(e) == [status |-> e, type |-> "none", val |-> <<>>]
Value(o) == [type |-> o.type, val |-> o.val]
NoCall == [status |-> "none", type |-> "none", val |-> <<>>]

----------------------------------------------------------------------------
(* Library primitives used by digests.py *)

Min(a, b) == IF a < b THEN a ELSE b
Max(a, b) == IF a > b THEN a ELSE b

\* Python's s[:n] for a sequence s and an integer n
SliceTo(s, n) ==
    SubSeq(s, 1, IF n < 0 THEN Max(0, Len(s) + n) ELSE Min(n, Len(s)))

\* str.encode(): UTF-8, errors="strict".  One code point to its bytes; a
\* surrogate (U+D800..U+DFFF) has no encoding.
IsSurrogate(cp) == cp >= 55296 /\ cp <= 57343

Utf8(cp) ==
    IF cp < 128 THEN <<cp>>
    ELSE IF cp < 2048 THEN <<192 + (cp \div 64), 128 + (cp % 64)>>
    ELSE IF cp < 65536
         THEN <<224 + (cp \div 4096), 128 + ((cp \div 64) % 64), 128 + (cp % 64)>>
    ELSE <<240 + (cp \div 262144), 128 + ((cp \div 4096) % 64),
           128 + ((cp \div 64) % 64), 128 + (cp % 64)>>

RECURSIVE Utf8All(_)
Utf8All(s) == IF s = <<>> THEN <<>> ELSE Utf8(Head(s)) \o Utf8All(Tail(s))

\* slip: the ASCII codec (Python 2's default), every non-ASCII code point
\* is refused
encode_ascii(s) ==
    IF \E i \in 1..Len(s) : s[i] >= 128
    THEN Raise("UnicodeEncodeError")
    ELSE Ok(Bytes(s))

encode(s) ==
    IF \E i \in 1..Len(s) : IsSurrogate(s[i])
    THEN Raise("UnicodeEncodeError")
    ELSE Ok(Bytes(Utf8All(s)))

\* slip: \s taken to be space, tab and newline only
MatchesPattern_narrow(b) == b \in {32, 9, 10} \/ b = Star

\* the bytes pattern [\s\*]: \s of a bytes pattern is ASCII whitespace only
MatchesPattern(b) == b \in AsciiWhitespace \/ b = Star

\* slip: re.sub with count=1, only the first match is deleted
re_sub_count1(data) ==
    LET hits == {i \in 1..Len(data) : MatchesPattern(data[i])}
    IN  IF hits = {} THEN data
        ELSE LET first == CHOOSE i \in hits : \A j \in hits : i <= j
             IN  SubSeq(data, 1, first - 1) \o SubSeq(data, first + 1, Len(data))

\* re.sub(b"[\s\*]", b"", data): every match is deleted
re_sub(data) == SelectSeq(data, LAMBDA b : ~MatchesPattern(b))

\* slip: the .upper() call left out
UpperByte_missing(b) == b

\* bytes.upper(): only ASCII a-z change
UpperByte(b) == IF b >= 97 /\ b <= 122 THEN b - 32 ELSE b
upper(data) == [i \in 1..Len(data) |-> UpperByte(data[i])]

\* str.rstrip(chars) for a single character
RECURSIVE rstrip(_, _)
rstrip(s, c) ==
    IF s # <<>> /\ s[Len(s)] = c THEN rstrip(SubSeq(s, 1, Len(s) - 1), c) ELSE s

\* Stand-in for a hashlib primitive: n digest bytes, a function of the data
\* alone, distinct for distinct data of fewer than n - 1 bytes (the first
\* byte carries the length, the next ones the data, each offset by a
\* per-algorithm, per-position value).
HashModel(data, n, salt) ==
    [i \in 1..n |->
        IF i = 1 THEN (Len(data) + salt) % 256
        ELSE IF i - 1 <= Len(data) THEN (data[i - 1] + salt * i) % 256
        ELSE (Len(data) + salt * i) % 256]

md5(data) == HashModel(data, MD5Len, 37)
sha1(data) == HashModel(data, SHA1Len, 101)
sha512(data) == HashModel(data, SHA512Len, 211)

\* hash.hexdigest(): two lowercase hexadecimal digits per byte
HexDigit(n) == IF n < 10 THEN 48 + n ELSE 87 + n
RECURSIVE hexdigest(_)
hexdigest(digest) ==
    IF digest = <<>> THEN <<>>
    ELSE <<HexDigit(Head(digest) \div 16), HexDigit(Head(digest) % 16)>>
           \o hexdigest(Tail(digest))

\* base64: the character of a 6-bit value; c62 and c63 are the last two
\* characters of the alphabet ('+' '/' standard, '-' '_' URL-safe)
B64Char(v, c62, c63) ==
    IF v < 26 THEN 65 + v
    ELSE IF v < 52 THEN 97 + (v - 26)
    ELSE IF v < 62 THEN 48 + (v - 52)
    ELSE IF v = 62 THEN c62 ELSE c63

RECURSIVE B64Encode(_, _, _)
B64Encode(data, c62, c63) ==
    IF Len(data) = 0 THEN <<>>
    ELSE IF Len(data) = 1 THEN
        <<B64Char(data[1] \div 4, c62, c63),
          B64Char((data[1] % 4) * 16, c62, c63), Pad, Pad>>
    ELSE IF Len(data) = 2 THEN
        <<B64Char(data[1] \div 4, c62, c63),
          B64Char((data[1] % 4) * 16 + (data[2] \div 16), c62, c63),
          B64Char((data[2] % 16) * 4, c62, c63), Pad>>
    ELSE
        <<B64Char(data[1] \div 4, c62, c63),
          B64Char((data[1] % 4) * 16 + (data[2] \div 16), c62, c63),
          B64Char((data[2] % 16) * 4 + (data[3] \div 64), c62, c63),
          B64Char(data[3] % 64, c62, c63)>>
          \o B64Encode(SubSeq(data, 4, Len(data)), c62, c63)

b64encode(data) == B64Encode(data, 43, 47)
urlsafe_b64encode(data) == B64Encode(data, 45, 95)

----------------------------------------------------------------------------
(* digests.py *)

\* slip: s.encode(errors="replace"), '?' for what cannot be encoded
_to_binary_replace(s) ==
    IF s.type = "bytes" THEN Ok(s)
    ELSE Ok(Bytes(Utf8All([i \in 1..Len(s.val) |->
                              IF IsSurrogate(s.val[i]) THEN 63 ELSE s.val[i]])))

\* def _to_binary(s)
_to_binary(s) == IF s.type = "bytes" THEN Ok(s) ELSE encode(s.val)

\* def normalize_sequence(seq)
normalize_sequence(s) ==
    LET b == _to_binary(s)
    IN  IF b.status # "ok" THEN b ELSE Ok(Bytes(upper(re_sub(b.val))))

\* slip: the normalize flag ignored, the input always normalized
Prepare_always(s, norm) ==
    LET b == _to_binary(s)
    IN  IF b.status # "ok" THEN b ELSE normalize_sequence(Value(b))

\* slip: the normalize flag inverted
Prepare_inverted(s, norm) ==
    LET b == _to_binary(s)
    IN  IF b.status # "ok" THEN b
        ELSE IF norm THEN b ELSE normalize_sequence(Value(b))

\* the two lines every seq_* function starts with:
\*   seq = _to_binary(seq)
\*   seq = normalize_sequence(seq) if normalize else seq
Prepare(s, norm) ==
    LET b == _to_binary(s)
    IN  IF b.status # "ok" THEN b
        ELSE IF norm THEN normalize_sequence(Value(b)) ELSE b

\* slip: the padding left on
seq_seguid_padded(s, norm) ==
    LET b == Prepare(s, norm)
    IN  IF b.status # "ok" THEN b ELSE Ok(Str(b64encode(sha1(b.val))))

\* def seq_seguid(seq, normalize=True)
seq_seguid(s, norm) ==
    LET b == Prepare(s, norm)
    IN  IF b.status # "ok" THEN b
        ELSE Ok(Str(rstrip(b64encode(sha1(b.val)), Pad)))

\* slip: the data normalized before hashing
sha512t_normalizing(data, size) ==
    IF data.type # "bytes" THEN Raise("TypeError")
    ELSE Ok(Str(urlsafe_b64encode(SliceTo(sha512(upper(re_sub(data.val))), size))))

\* def sha512t(data, digest_size=24); hashlib rejects a str
sha512t(data, size) ==
    IF data.type # "bytes" THEN Raise("TypeError")
    ELSE Ok(Str(urlsafe_b64encode(SliceTo(sha512(data.val), size))))

\* def seq_seqhash(seq, normalize=True, digest_size=24)
seq_seqhash(s, norm, size) ==
    LET b == Prepare(s, norm)
    IN  IF b.status # "ok" THEN b ELSE sha512t(Value(b), SeqhashDigestSize)

\* def seq_md5(seq, normalize=True)
seq_md5(s, norm) ==
    LET b == Prepare(s, norm)
    IN  IF b.status # "ok" THEN b ELSE Ok(Str(hexdigest(md5(b.val))))

\* def seq_sha1(seq, normalize=True)
seq_sha1(s, norm) ==
    LET b == Prepare(s, norm)
    IN  IF b.status # "ok" THEN b ELSE Ok(Str(hexdigest(sha1(b.val))))

\* def seq_sha512(seq, normalize=True)
seq_sha512(s, norm) ==
    LET b == Prepare(s, norm)
    IN  IF b.status # "ok" THEN b ELSE Ok(Str(hexdigest(sha512(b.val))))

----------------------------------------------------------------------------
(* The state machine: a caller holds an input, a normalize flag and a      *)
(* digest_size, and calls the functions of the module; each call is one    *)
(* step that records which function ran and how it ended.                  *)

Init ==
    /\ seq \in Inputs
    /\ normalize \in BOOLEAN
    /\ digest_size \in DigestSizes
    /\ pc = "ready"
    /\ fn = "none"
    /\ out = NoCall

\* a call takes the caller from "ready" to "done" with the outcome recorded
Return(f, o) ==
    /\ pc = "ready"
    /\ pc' = "done"
    /\ fn' = f
    /\ out' = o
    /\ UNCHANGED <<seq, normalize, digest_size>>

Call_to_binary == Return("_to_binary", _to_binary(seq))
Call_normalize_sequence == Return("normalize_sequence", normalize_sequence(seq))
Call_seq_seguid == Return("seq_seguid", seq_seguid(seq, normalize))
Call_sha512t == Return("sha512t", sha512t(seq, digest_size))
Call_seq_seqhash == Return("seq_seqhash", seq_seqhash(seq, normalize, digest_size))
Call_seq_md5 == Return("seq_md5", seq_md5(seq, normalize))
Call_seq_sha1 == Return("seq_sha1", seq_sha1(seq, normalize))
Call_seq_sha512 == Return("seq_sha512", seq_sha512(seq, normalize))

Next ==
    \/ Call_to_binary
    \/ Call_normalize_sequence
    \/ Call_seq_seguid
    \/ Call_sha512t
    \/ Call_seq_seqhash
    \/ Call_seq_md5
    \/ Call_seq_sha1
    \/ Call_seq_sha512

Spec == Init /\ [][Next]_vars

\* The same calls on few inputs but with every digest_size from 0 to the
\* full SHA-512 length.
SmallInputs ==
    {Bytes(b) : b \in SeqsUpTo({97, Star}, 1)} \cup {Str(s) : s \in SeqsUpTo({97, 32}, 1)}

InitAllSizes ==
    /\ seq \in SmallInputs
    /\ normalize \in BOOLEAN
    /\ digest_size \in 0..SHA512Len
    /\ pc = "ready"
    /\ fn = "none"
    /\ out = NoCall

SpecAllSizes == InitAllSizes /\ [][Next]_vars

----------------------------------------------------------------------------
(* Vocabulary of the properties *)

Done(f) == pc = "done" /\ fn = f
Returned(f) == Done(f) /\ out.status = "ok"

CeilDiv(a, b) == (a + b - 1) \div b

\* base64 decoding, written from RFC 4648 and not from the encoder above
B64Value(c, c62, c63) ==
    IF c >= 65 /\ c <= 90 THEN c - 65
    ELSE IF c >= 97 /\ c <= 122 THEN c - 71
    ELSE IF c >= 48 /\ c <= 57 THEN c + 4
    ELSE IF c = c62 THEN 62
    ELSE IF c = c63 THEN 63
    ELSE -1

InAlphabet(chars, c62, c63) ==
    \A i \in 1..Len(chars) : B64Value(chars[i], c62, c63) >= 0

RECURSIVE B64Decode(_, _, _)
B64Decode(chars, c62, c63) ==
    IF Len(chars) < 4 THEN <<>>
    ELSE LET v == [i \in 1..4 |-> B64Value(chars[i], c62, c63)]
             b1 == v[1] * 4 + (v[2] \div 16)
             b2 == (v[2] % 16) * 16 + (v[3] \div 4)
             b3 == (v[3] % 4) * 64 + v[4]
         IN  IF chars[3] = Pad THEN <<b1>>
             ELSE IF chars[4] = Pad THEN <<b1, b2>>
             ELSE <<b1, b2, b3>> \o B64Decode(SubSeq(chars, 5, Len(chars)), c62, c63)

\* number of '=' at the end
RECURSIVE TrailingPads(_)
TrailingPads(chars) ==
    IF chars # <<>> /\ chars[Len(chars)] = Pad
    THEN 1 + TrailingPads(SubSeq(chars, 1, Len(chars) - 1))
    ELSE 0

\* chars is the padded URL-safe base64 text of exactly the bytes data
IsUrlsafeB64Of(chars, data) ==
    /\ Len(chars) = 4 * CeilDiv(Len(data), 3)
    /\ TrailingPads(chars) = (3 - (Len(data) % 3)) % 3
    /\ InAlphabet(SubSeq(chars, 1, Len(chars) - TrailingPads(chars)), 45, 95)
    /\ B64Decode(chars, 45, 95) = data

\* the bytes a seq_* call hashes: the coerced input, normalized on request
\* by the reference canonical form below
IsLower(b) == b >= 97 /\ b <= 122
IsDeleted(b) == b \in {32, 9, 10, 13, 12, 11} \/ b = 42

RECURSIVE Canonical(_)
Canonical(data) ==
    IF data = <<>> THEN <<>>
    ELSE IF IsDeleted(Head(data)) THEN Canonical(Tail(data))
    ELSE <<IF IsLower(Head(data)) THEN Head(data) - 32 ELSE Head(data)>>
           \o Canonical(Tail(data))

Encodable(s) == s.type = "bytes" \/ \A i \in 1..Len(s.val) : ~IsSurrogate(s.val[i])
RawBytes(s) == IF s.type = "bytes" THEN s.val ELSE Utf8All(s.val)
HashedBytes(s, norm) == IF norm THEN Canonical(RawBytes(s)) ELSE RawBytes(s)

----------------------------------------------------------------------------
(* C1 *)

\* C1: whenever seq_seqhash returns, its result is the padded URL-safe
\* base64 text of exactly the first digest_size bytes of the SHA-512 digest
\* of the hashed bytes -- the digest_size the caller passed -- so it has
\* 4 * ceil(digest_size / 3) characters and equals sha512t of those bytes
\* with that digest_size.
C1_SeqhashTruncatesToCallerSize ==
    Returned("seq_seqhash") =>
        /\ IsUrlsafeB64Of(out.val, SliceTo(sha512(HashedBytes(seq, normalize)), digest_size))
        /\ Len(out.val) = 4 * CeilDiv(digest_size, 3)
        /\ out = sha512t(Bytes(HashedBytes(seq, normalize)), digest_size)

----------------------------------------------------------------------------
(* C9 *)

\* C9: for a bytes input and 0 <= digest_size <= 64, sha512t returns a str
\* that is the padded URL-safe base64 text of exactly the first digest_size
\* bytes of SHA-512 of the data as given: the data is not normalized, so
\* with at least the default digest_size the canonical form of a
\* non-canonical input gets a different result.
C9_Sha512tTruncatedUrlsafe ==
    (Done("sha512t") /\ seq.type = "bytes") =>
        /\ out.status = "ok"
        /\ out.type = "str"
        /\ IsUrlsafeB64Of(out.val, SliceTo(sha512(seq.val), digest_size))
        /\ (digest_size >= DefaultDigestSize /\ Canonical(seq.val) # seq.val)
              => out # sha512t(Bytes(Canonical(seq.val)), digest_size)

C9_Witness ==
    /\ Returned("sha512t")
    /\ seq.type = "bytes"
    /\ digest_size % 3 # 0
    /\ TrailingPads(out.val) > 0
    /\ \E i \in 1..Len(seq.val) : IsLower(seq.val[i]) \/ IsDeleted(seq.val[i])

----------------------------------------------------------------------------
(* Inputs that differ only in case, whitespace or '*' *)

DeletedBytes == {b \in 0..127 : IsDeleted(b)}

ToggleCase(c) ==
    IF c >= 97 /\ c <= 122 THEN c - 32
    ELSE IF c >= 65 /\ c <= 90 THEN c + 32
    ELSE c

InsertAt(v, i, c) == SubSeq(v, 1, i) \o <<c>> \o SubSeq(v, i + 1, Len(v))
RemoveAt(v, i) == SubSeq(v, 1, i - 1) \o SubSeq(v, i + 1, Len(v))

\* every input one edit away from s: the case of one ASCII letter changed,
\* one whitespace or '*' inserted at any position, or one removed
Variants(s) ==
    {[type |-> s.type, val |-> v] :
        v \in {[s.val EXCEPT ![i] = ToggleCase(s.val[i])] : i \in 1..Len(s.val)}
              \cup {InsertAt(s.val, i, c) : i \in 0..Len(s.val), c \in DeletedBytes}
              \cup {RemoveAt(s.val, i) : i \in {j \in 1..Len(s.val) : IsDeleted(s.val[j])}}}

SeqDigests == {"seq_seguid", "seq_seqhash", "seq_md5", "seq_sha1", "seq_sha512"}

Apply(f, s, norm, size) ==
    CASE f = "seq_seguid" -> seq_seguid(s, norm)
      [] f = "seq_seqhash" -> seq_seqhash(s, norm, size)
      [] f = "seq_md5" -> seq_md5(s, norm)
      [] f = "seq_sha1" -> seq_sha1(s, norm)
      [] f = "seq_sha512" -> seq_sha512(s, norm)

NotCanonical(data) == \E i \in 1..Len(data) : IsLower(data[i]) \/ IsDeleted(data[i])

----------------------------------------------------------------------------
(* C2 *)

\* C2: with normalize=true, the digest each of the five seq_* functions
\* returned for the input is also what it returns for every input that
\* differs from it by the case of an ASCII letter or by one inserted or
\* removed ASCII whitespace byte or '*' (and so, step by step, by any number
\* of them).
C2_DigestInvariantUnderCaseWhitespaceStar ==
    \A f \in SeqDigests :
        (Returned(f) /\ normalize) =>
            \A v \in Variants(seq) : Apply(f, v, TRUE, digest_size) = out

C2_Witness ==
    /\ \E f \in SeqDigests : Returned(f)
    /\ normalize
    /\ \E i \in 1..Len(seq.val) : IsLower(seq.val[i])
    /\ \E i \in 1..Len(seq.val) : IsDeleted(seq.val[i])

----------------------------------------------------------------------------
(* C3 *)

\* C3: normalize_sequence is idempotent: applied to the bytes it returned,
\* it returns the same bytes.
C3_NormalizeIdempotent ==
    Returned("normalize_sequence") => normalize_sequence(Value(out)) = out

C3_Witness ==
    /\ Returned("normalize_sequence")
    /\ Len(seq.val) >= 2
    /\ \A i \in 1..Len(seq.val) : IsDeleted(seq.val[i])

----------------------------------------------------------------------------
(* C4 *)

\* C4: normalize_sequence returns the reference canonical form of the
\* coerced input: whitespace and '*' bytes deleted, a-z replaced by A-Z,
\* everything else kept in order; so the result has no whitespace, no '*',
\* no lowercase ASCII letter and is not longer than the input bytes.
C4_NormalizeIsCanonicalForm ==
    Returned("normalize_sequence") =>
        /\ out.type = "bytes"
        /\ out.val = Canonical(RawBytes(seq))
        /\ ~NotCanonical(out.val)
        /\ Len(out.val) <= Len(RawBytes(seq))

C4_Witness ==
    /\ Returned("normalize_sequence")
    /\ \E i \in 1..Len(seq.val) : seq.val[i] \in {11, 12, 13}
    /\ out.val # <<>>
    /\ out.val # RawBytes(seq)

----------------------------------------------------------------------------
(* C5 *)

\* C5: when the coerced input holds a lowercase ASCII letter, an ASCII
\* whitespace byte or a '*', the digest a seq_* function returns with
\* normalize=false is the digest of the raw bytes and differs from the one
\* it returns with normalize=true.
C5_RawDigestDiffers ==
    \A f \in SeqDigests :
        (Returned(f) /\ NotCanonical(RawBytes(seq))) =>
            /\ out # Apply(f, seq, ~normalize, digest_size)
            /\ ~normalize => out = Apply(f, Bytes(RawBytes(seq)), FALSE, digest_size)

C5_Witness ==
    /\ \E f \in SeqDigests : Returned(f)
    /\ ~normalize
    /\ NotCanonical(RawBytes(seq))

----------------------------------------------------------------------------
(* C6 *)

\* C6: seq_seguid returns the standard-alphabet base64 text of the 20-byte
\* SHA-1 digest without its '=' padding: always 27 characters, none of them
\* '='; sha512t and seq_seqhash return the encoder's text with its padding,
\* a multiple of 4 characters that re-encodes to itself.
C6_SeguidUnpaddedSeqhashPadded ==
    /\ Returned("seq_seguid") =>
          /\ Len(out.val) = 27
          /\ \A i \in 1..Len(out.val) : out.val[i] # Pad
          /\ InAlphabet(out.val, 43, 47)
          /\ B64Decode(out.val \o <<Pad>>, 43, 47) = sha1(HashedBytes(seq, normalize))
    /\ (Returned("sha512t") \/ Returned("seq_seqhash")) =>
          /\ Len(out.val) % 4 = 0
          /\ urlsafe_b64encode(B64Decode(out.val, 45, 95)) = out.val
    /\ Returned("sha512t") =>
          TrailingPads(out.val) = (3 - (Min(digest_size, SHA512Len) % 3)) % 3

C6_Witness ==
    /\ Returned("seq_seguid")
    /\ Len(out.val) = 27
    /\ seq.val # <<>>

----------------------------------------------------------------------------
(* C7 *)

Coercing ==
    {"_to_binary", "normalize_sequence", "seq_seguid", "seq_seqhash",
     "seq_md5", "seq_sha1", "seq_sha512"}

\* C7 as stated: for every bytes or str input, _to_binary returns bytes
\* (bytes unchanged) and normalize_sequence and the five seq_* functions
\* return a result.
C7_NoErrorPath ==
    \A f \in Coercing :
        Done(f) =>
            /\ out.status = "ok"
            /\ (f = "_to_binary") => out.type = "bytes"
            /\ (f = "_to_binary" /\ seq.type = "bytes") => Value(out) = seq

\* C7 as amended: the same for every bytes input and every str input that
\* the default encoding can encode (the empty one included); the bytes of a
\* str are its UTF-8 encoding.
C7_NoErrorPathWhenEncodable ==
    \A f \in Coercing :
        (Done(f) /\ Encodable(seq)) =>
            /\ out.status = "ok"
            /\ (f = "_to_binary") => out.type = "bytes"
            /\ (f = "_to_binary" /\ seq.type = "bytes") => Value(out) = seq
            /\ (f = "_to_binary" /\ seq.type = "str") => out.val = Utf8All(seq.val)

C7_Witness ==
    /\ \E f \in Coercing : Returned(f)
    /\ seq.type = "str"
    /\ \E i \in 1..Len(seq.val) : seq.val[i] >= 128

----------------------------------------------------------------------------
(* C8 *)

\* C8: when a str input cannot be encoded, every coercing function ends in
\* the encoding error and returns nothing: no digest and no canonical form
\* of altered bytes.
C8_UnencodableRaises ==
    \A f \in Coercing :
        (Done(f) /\ ~Encodable(seq)) =>
            /\ out.status = "UnicodeEncodeError"
            /\ out.type = "none"
            /\ out.val = <<>>

C8_Witness ==
    /\ \E f \in SeqDigests : Done(f)
    /\ ~Encodable(seq)
    /\ \E i \in 1..Len(seq.val) : ~IsSurrogate(seq.val[i])

----------------------------------------------------------------------------
(* C10 *)

\* C10: what a seq_* function returns with normalize=true is what it
\* returns with normalize=false for normalize_sequence of the same input
\* (the error of normalize_sequence when that fails), and a str input gets
\* what its encoded bytes get.
C10_DigestOfCanonicalBytes ==
    \A f \in SeqDigests :
        Done(f) =>
            /\ normalize =>
                  LET n == normalize_sequence(seq)
                  IN  out = IF n.status = "ok"
                            THEN Apply(f, Value(n), FALSE, digest_size)
                            ELSE n
            /\ Encodable(seq) => out = Apply(f, Bytes(RawBytes(seq)), normalize, digest_size)

C10_Witness ==
    /\ \E f \in SeqDigests : Returned(f)
    /\ normalize
    /\ seq.type = "str"
    /\ NotCanonical(RawBytes(seq))

====
